---- MODULE Spec2Model ----
(***************************************************************************)
(* Model of tools/pytorch/gmm.py: the PyTorchGMM benchmark adapter         *)
(* (prepare, output, calculate_objective, calculate_jacobian) and the two  *)
(* wrapped free functions calculate_objectiveGMM / calculate_jacobianGMM.  *)
(*                                                                         *)
(* A Python object is modelled by its attribute dictionary: a function     *)
(* from the names of the attributes that exist to their values.  Reading   *)
(* an attribute that does not exist raises AttributeError, reading a       *)
(* module-level name that does not exist raises NameError.                 *)
(***************************************************************************)
EXTENDS Integers, Sequences, FiniteSets, TLC

VARIABLES self, last

vars == <<self, last>>

(***************************************************************************)
(* Bounds of the model.                                                    *)
(***************************************************************************)
\* largest number of mixture components (rows of means / icf, length of alpha)
MaxK == 2
\* largest dimension of a data point (columns of means / icf / x)
MaxD == 2
\* the contents of a raw record are generated from a seed in 0..MaxSeed
MaxSeed == 1
\* iteration counts passed to the evaluation calls range over -1..MaxTimes
MaxTimes == 2

(***************************************************************************)
(* Raw values of a record, as the harness hands them over: a scalar, a     *)
(* list, or a list of lists (possibly ragged).                             *)
(***************************************************************************)
Scalar(v) == [rank |-> 0, val |-> v]
List1(v) == [rank |-> 1, val |-> v]
List2(v) == [rank |-> 2, val |-> v]

Elem(seed, i, j) == (seed + i + 2 * j) % 3

RawRecord(k, d, seed) ==
    [alpha |-> List1([i \in 1..k |-> Elem(seed, i, 0)]),
     means |-> List2([i \in 1..k |-> [j \in 1..d |-> Elem(seed, i, j)]]),
     icf   |-> List2([i \in 1..k |-> [j \in 1..d |-> Elem(seed + 1, j, i)]]),
     x     |-> List2(<<[j \in 1..d |-> Elem(seed + 2, j, j)]>>),
     gamma |-> Scalar(1 + seed),
     m     |-> Scalar(seed)]

\* every shape with seed 0, and the largest shape with every seed
ValidRecords ==
    {RawRecord(k, d, 0) : k \in 1..MaxK, d \in 1..MaxD}
    \cup {RawRecord(MaxK, MaxD, s) : s \in 0..MaxSeed}

\* records whose arrays are ragged: the tensor conversion rejects them
RaggedMeans == [RawRecord(2, 2, 0) EXCEPT !.means = List2(<<(<<0>>), <<0, 1>>>>)]
RaggedX == [RawRecord(2, 2, 0) EXCEPT !.x = List2(<<(<<1>>), <<0, 1>>>>)]

Records == ValidRecords \cup {RaggedMeans, RaggedX}

(***************************************************************************)
(* External collaborators (defs, gmm_data, utils, gmm_objective,           *)
(* wrap_module): their code is not in this file.                           *)
(***************************************************************************)
Wishart(gamma, m) == [gamma |-> gamma, m |-> m]

GMMInput(alphas, means, icf, x, wishart) ==
    [alphas |-> alphas, means |-> means, icf |-> icf, x |-> x, wishart |-> wishart]

GMMOutput(objective, gradient) == [objective |-> objective, gradient |-> gradient]

RECURSIVE Flatten(_)
Flatten(rows) == IF rows = <<>> THEN <<>> ELSE Head(rows) \o Flatten(Tail(rows))

RECURSIVE SumSeq(_)
SumSeq(s) == IF s = <<>> THEN 0 ELSE Head(s) + SumSeq(Tail(s))

Convertible(raw) ==
    raw.rank = 2 => \A i \in 1..Len(raw.val) : Len(raw.val[i]) = Len(raw.val[1])

\* torch.tensor(param, requires_grad=grad_req) for a convertible raw value
to_torch_tensor(raw, grad_req) ==
    CASE raw.rank = 0 ->
           [shape |-> <<>>, data |-> <<raw.val>>, requires_grad |-> grad_req]
      [] raw.rank = 1 ->
           [shape |-> <<Len(raw.val)>>, data |-> raw.val, requires_grad |-> grad_req]
      [] raw.rank = 2 ->
           [shape |-> <<Len(raw.val), IF raw.val = <<>> THEN 0 ELSE Len(raw.val[1])>>,
            data |-> Flatten(raw.val), requires_grad |-> grad_req]

\* to_torch_tensors(params, grad_req): a tuple of tensors, or ValueError
to_torch_tensors(params, grad_req) ==
    IF \A i \in 1..Len(params) : Convertible(params[i])
    THEN [raised |-> "none",
          value |-> [i \in 1..Len(params) |-> to_torch_tensor(params[i], grad_req)]]
    ELSE [raised |-> "ValueError", value |-> <<>>]

\* torch.zeros(1) and torch.empty(0)
torch_zeros1 == [shape |-> <<1>>, data |-> <<0>>, requires_grad |-> FALSE]
torch_empty0 == [shape |-> <<0>>, data |-> <<>>, requires_grad |-> FALSE]

(***************************************************************************)
(* The external objective.  The real gmm_objective is a floating-point     *)
(* log-likelihood; what the adapter relies on is only that it is a pure    *)
(* function of its six positional arguments returning a 0-dimensional      *)
(* tensor, differentiable in the first three.  An integer polynomial with  *)
(* a different partial derivative for each argument stands in for it:      *)
(*   f = sum(alphas) + sum(means^2) + gamma * sum(icf^2) + m * sum(x)      *)
(***************************************************************************)
Squares(s) == [i \in 1..Len(s) |-> s[i] * s[i]]

gmm_objective(alphas, means, icf, x, gamma, m) ==
    [shape |-> <<>>,
     data |-> <<SumSeq(alphas.data) + SumSeq(Squares(means.data))
                + gamma.data[1] * SumSeq(Squares(icf.data))
                + m.data[1] * SumSeq(x.data)>>,
     requires_grad |-> alphas.requires_grad \/ means.requires_grad \/ icf.requires_grad]

\* the partial derivatives of gmm_objective in its k-th positional argument,
\* one per element of that argument, in flattened order
gmm_partial(k, alphas, means, icf, x, gamma, m) ==
    CASE k = 1 -> [i \in 1..Len(alphas.data) |-> 1]
      [] k = 2 -> [i \in 1..Len(means.data) |-> 2 * means.data[i]]
      [] k = 3 -> [i \in 1..Len(icf.data) |-> 2 * gamma.data[1] * icf.data[i]]

RECURSIVE ConcatPartials(_, _, _)
ConcatPartials(k, inputs, params) ==
    IF k > Len(inputs) THEN <<>>
    ELSE gmm_partial(k, inputs[1], inputs[2], inputs[3],
                     params[1], params[2], params[3])
         \o ConcatPartials(k + 1, inputs, params)

\* torch_jacobian(gmm_objective, inputs, params): the value of the objective
\* and the flat concatenation of its gradients in each of `inputs`, in order
torch_jacobian(inputs, params) ==
    LET J == ConcatPartials(1, inputs, params)
    IN  <<gmm_objective(inputs[1], inputs[2], inputs[3],
                        params[1], params[2], params[3]),
          [shape |-> <<Len(J)>>, data |-> J, requires_grad |-> FALSE]>>

\* Tensor.tolist(): a number for a 0-dimensional tensor, a list for a
\* 1-dimensional one, a list of rows for a 2-dimensional one
tolist(t) ==
    CASE Len(t.shape) = 0 -> t.data[1]
      [] Len(t.shape) = 1 -> t.data
      [] Len(t.shape) = 2 ->
           [i \in 1..t.shape[1] |->
              [j \in 1..t.shape[2] |-> t.data[(i - 1) * t.shape[2] + j]]]

\* Tensor.numpy(): the plain array of a tensor that is not tracked
numpy(t) == [shape |-> t.shape, data |-> t.data]

\* Tensor.item(): the plain number of a one-element tensor
item(t) == t.data[1]

(***************************************************************************)
(* Python objects and names.                                               *)
(***************************************************************************)
\* the names bound at module level: the imports and the definitions
ModuleNames ==
    {"np", "torch", "Wishart", "GMMInput", "gmm_objective", "ITest",
     "to_torch_tensor", "to_torch_tensors", "torch_jacobian", "wrap",
     "PyTorchGMM", "prepare_input", "calculate_jacobianGMM",
     "calculate_objectiveGMM"}

None == "None"

\* PyTorchGMM(): a fresh instance has no attribute
PyTorchGMM == [a \in {} |-> None]

HasAttr(py, name) == name \in DOMAIN py

SetAttr(py, name, v) ==
    [a \in DOMAIN py \cup {name} |-> IF a = name THEN v ELSE py[a]]

\* what a call leaves: the instance, the exception that reached the caller
\* ("none" when it returned), the number of invocations of the external
\* objective it made, and the value it returned
Outcome(py, raised, evals, ret) ==
    [self |-> py, raised |-> raised, evals |-> evals, ret |-> ret]

(***************************************************************************)
(* class PyTorchGMM                                                        *)
(***************************************************************************)
\* mutant: the results are initialized only when they do not exist yet
prepare_keeping_results(py, input) ==
    LET t1 == to_torch_tensors(<<input.alphas, input.means, input.icf>>, TRUE)
        t2 == to_torch_tensors(
                  <<input.x, input.wishart.gamma, input.wishart.m>>, FALSE)
    IN  IF t1.raised # "none" THEN Outcome(py, t1.raised, 0, None)
        ELSE IF t2.raised # "none"
             THEN Outcome(SetAttr(py, "inputs", t1.value), t2.raised, 0, None)
        ELSE
          LET py2 == SetAttr(SetAttr(py, "inputs", t1.value), "params", t2.value)
              py3 == IF HasAttr(py2, "objective") THEN py2
                     ELSE SetAttr(py2, "objective", torch_zeros1)
              py4 == IF HasAttr(py3, "gradient") THEN py3
                     ELSE SetAttr(py3, "gradient", torch_empty0)
          IN  Outcome(py4, "none", 0, None)

prepare(py, input) ==
    LET t1 == to_torch_tensors(<<input.alphas, input.means, input.icf>>, TRUE)
    IN  IF t1.raised # "none" THEN Outcome(py, t1.raised, 0, None)
        ELSE
          LET py1 == SetAttr(py, "inputs", t1.value)
              t2 == to_torch_tensors(
                        <<input.x, input.wishart.gamma, input.wishart.m>>, FALSE)
          IN  IF t2.raised # "none" THEN Outcome(py1, t2.raised, 0, None)
              ELSE
                LET py2 == SetAttr(py1, "params", t2.value)
                    py3 == SetAttr(py2, "objective", torch_zeros1)
                    py4 == SetAttr(py3, "gradient", torch_empty0)
                IN  Outcome(py4, "none", 0, None)

\* mutant: reading the results clears them
output_resetting(py) ==
    IF ~HasAttr(py, "objective") \/ ~HasAttr(py, "gradient")
    THEN Outcome(py, "AttributeError", 0, None)
    ELSE Outcome(SetAttr(SetAttr(py, "objective", torch_zeros1),
                         "gradient", torch_empty0),
                 "NameError", 0, None)

output(py) ==
    IF "GMMOutput" \notin ModuleNames THEN Outcome(py, "NameError", 0, None)
    ELSE IF ~HasAttr(py, "objective") THEN Outcome(py, "AttributeError", 0, None)
    ELSE IF Len(py.objective.data) # 1 THEN Outcome(py, "RuntimeError", 0, None)
    ELSE IF ~HasAttr(py, "gradient") THEN Outcome(py, "AttributeError", 0, None)
    ELSE IF py.gradient.requires_grad THEN Outcome(py, "RuntimeError", 0, None)
    ELSE Outcome(py, "none", 0, GMMOutput(item(py.objective), numpy(py.gradient)))

\* iterations i..times of the loop of calculate_objective; the external
\* objective raises in iteration failAt (never when failAt = 0)
RECURSIVE objective_loop(_, _, _, _, _)
objective_loop(py, i, times, failAt, evals) ==
    IF i > times THEN Outcome(py, "none", evals, None)
    ELSE IF ~HasAttr(py, "inputs") \/ ~HasAttr(py, "params")
         THEN Outcome(py, "AttributeError", evals, None)
    ELSE IF i = failAt THEN Outcome(py, "ExternalError", evals + 1, None)
    ELSE objective_loop(
             SetAttr(py, "objective",
                     gmm_objective(py.inputs[1], py.inputs[2], py.inputs[3],
                                   py.params[1], py.params[2], py.params[3])),
             i + 1, times, failAt, evals + 1)

\* mutant: an instance that was never prepared is silently skipped
calculate_objective_guarded(py, times, failAt) ==
    IF ~HasAttr(py, "inputs") THEN Outcome(py, "none", 0, None)
    ELSE objective_loop(py, 1, times, failAt, 0)

\* mutant: a failing iteration is caught and the loop goes on
RECURSIVE swallowing_loop(_, _, _, _, _)
swallowing_loop(py, i, times, failAt, evals) ==
    IF i > times THEN Outcome(py, "none", evals, None)
    ELSE IF ~HasAttr(py, "inputs") \/ ~HasAttr(py, "params")
         THEN Outcome(py, "AttributeError", evals, None)
    ELSE IF i = failAt THEN swallowing_loop(py, i + 1, times, failAt, evals + 1)
    ELSE swallowing_loop(
             SetAttr(py, "objective",
                     gmm_objective(py.inputs[1], py.inputs[2], py.inputs[3],
                                   py.params[1], py.params[2], py.params[3])),
             i + 1, times, failAt, evals + 1)

calculate_objective_swallowing(py, times, failAt) ==
    swallowing_loop(py, 1, times, failAt, 0)

\* mutant: the objective is evaluated through torch_jacobian and the gradient
\* it yields is stored too
RECURSIVE with_gradient_loop(_, _, _, _, _)
with_gradient_loop(py, i, times, failAt, evals) ==
    IF i > times THEN Outcome(py, "none", evals, None)
    ELSE IF ~HasAttr(py, "inputs") \/ ~HasAttr(py, "params")
         THEN Outcome(py, "AttributeError", evals, None)
    ELSE IF i = failAt THEN Outcome(py, "ExternalError", evals + 1, None)
    ELSE LET r == torch_jacobian(py.inputs, py.params)
         IN  with_gradient_loop(
                 SetAttr(SetAttr(py, "objective", r[1]), "gradient", r[2]),
                 i + 1, times, failAt, evals + 1)

calculate_objective_with_gradient(py, times, failAt) ==
    with_gradient_loop(py, 1, times, failAt, 0)

calculate_objective(py, times, failAt) == objective_loop(py, 1, times, failAt, 0)

\* iterations i..times of the loop of calculate_jacobian
RECURSIVE jacobian_loop(_, _, _, _, _)
jacobian_loop(py, i, times, failAt, evals) ==
    IF i > times THEN Outcome(py, "none", evals, None)
    ELSE IF ~HasAttr(py, "inputs") \/ ~HasAttr(py, "params")
         THEN Outcome(py, "AttributeError", evals, None)
    ELSE IF i = failAt THEN Outcome(py, "ExternalError", evals + 1, None)
    ELSE LET r == torch_jacobian(py.inputs, py.params)
         IN  jacobian_loop(
                 SetAttr(SetAttr(py, "objective", r[1]), "gradient", r[2]),
                 i + 1, times, failAt, evals + 1)

\* mutant: the gradient of an iteration is added to the one already stored
\* (the gradients of the inputs are not cleared between iterations)
RECURSIVE accumulating_loop(_, _, _, _, _)
accumulating_loop(py, i, times, failAt, evals) ==
    IF i > times THEN Outcome(py, "none", evals, None)
    ELSE IF ~HasAttr(py, "inputs") \/ ~HasAttr(py, "params")
         THEN Outcome(py, "AttributeError", evals, None)
    ELSE IF i = failAt THEN Outcome(py, "ExternalError", evals + 1, None)
    ELSE LET r == torch_jacobian(py.inputs, py.params)
             g == IF i > 1 /\ HasAttr(py, "gradient")
                     /\ Len(py.gradient.data) = Len(r[2].data)
                  THEN [r[2] EXCEPT !.data =
                           [n \in 1..Len(r[2].data) |->
                               py.gradient.data[n] + r[2].data[n]]]
                  ELSE r[2]
         IN  accumulating_loop(
                 SetAttr(SetAttr(py, "objective", r[1]), "gradient", g),
                 i + 1, times, failAt, evals + 1)

calculate_jacobian_accumulating(py, times, failAt) ==
    accumulating_loop(py, 1, times, failAt, 0)

\* mutant: the loop body runs before the iteration count is tested
calculate_jacobian_at_least_once(py, times, failAt) ==
    jacobian_loop(py, 1, IF times < 1 THEN 1 ELSE times, failAt, 0)

calculate_jacobian(py, times, failAt) == jacobian_loop(py, 1, times, failAt, 0)

(***************************************************************************)
(* The free functions.                                                     *)
(***************************************************************************)
prepare_input(input) ==
    GMMInput(input.alpha, input.means, input.icf, input.x,
             Wishart(input.gamma, input.m))

\* @wrap(prepare_input, lambda x: x.tolist())
calculate_jacobianGMM(raw, failAt) ==
    LET input == prepare_input(raw)
        py == PyTorchGMM
        r1 == prepare(py, input)
    IN  IF r1.raised # "none" THEN Outcome(r1.self, r1.raised, 0, None)
        ELSE
          LET r2 == calculate_jacobian(r1.self, 1, failAt)
          IN  IF r2.raised # "none" THEN Outcome(r2.self, r2.raised, r2.evals, None)
              ELSE IF ~HasAttr(r2.self, "gradient")
                   THEN Outcome(r2.self, "AttributeError", r2.evals, None)
              ELSE Outcome(r2.self, "none", r2.evals, tolist(r2.self.gradient))

\* mutant: one adapter is shared by all calls and prepared only when it has
\* not been prepared before
calculate_objectiveGMM_shared(raw, failAt) ==
    LET input == prepare_input(raw)
        r1 == IF HasAttr(self, "params") THEN Outcome(self, "none", 0, None)
              ELSE prepare(self, input)
    IN  IF r1.raised # "none" THEN Outcome(r1.self, r1.raised, 0, None)
        ELSE
          LET r2 == calculate_objective(r1.self, 1, failAt)
          IN  IF r2.raised # "none" THEN Outcome(r2.self, r2.raised, r2.evals, None)
              ELSE Outcome(r2.self, "none", r2.evals, tolist(r2.self.objective))

\* @wrap(prepare_input, lambda x: x.tolist())
calculate_objectiveGMM(raw, failAt) ==
    LET input == prepare_input(raw)
        py == PyTorchGMM
        r1 == prepare(py, input)
    IN  IF r1.raised # "none" THEN Outcome(r1.self, r1.raised, 0, None)
        ELSE
          LET r2 == calculate_objective(r1.self, 1, failAt)
          IN  IF r2.raised # "none" THEN Outcome(r2.self, r2.raised, r2.evals, None)
              ELSE IF ~HasAttr(r2.self, "objective")
                   THEN Outcome(r2.self, "AttributeError", r2.evals, None)
              ELSE Outcome(r2.self, "none", r2.evals, tolist(r2.self.objective))

(***************************************************************************)
(* The state machine: one instance `self` driven by a harness, and the     *)
(* free functions, which work on an instance of their own.  `last` is the  *)
(* record of the most recent call: what was called with which arguments,   *)
(* how it ended, and the instance as it was before the call.               *)
(***************************************************************************)
Call(op, input, times, failAt, o) ==
    [op |-> op, input |-> input, times |-> times, failAt |-> failAt,
     raised |-> o.raised, evals |-> o.evals, ret |-> o.ret, pre |-> self]

Init ==
    /\ self = PyTorchGMM
    /\ last = [op |-> "new", input |-> None, times |-> 0, failAt |-> 0,
               raised |-> "none", evals |-> 0, ret |-> None, pre |-> PyTorchGMM]

Prepare ==
    \E r \in Records :
        LET o == prepare(self, prepare_input(r))
        IN  /\ self' = o.self
            /\ last' = Call("prepare", r, 0, 0, o)

Output ==
    LET o == output(self)
    IN  /\ self' = o.self
        /\ last' = Call("output", None, 0, 0, o)

CalculateObjective ==
    \E times \in -1..MaxTimes, failAt \in 0..MaxTimes :
        LET o == calculate_objective(self, times, failAt)
        IN  /\ self' = o.self
            /\ last' = Call("calculate_objective", None, times, failAt, o)

CalculateJacobian ==
    \E times \in -1..MaxTimes, failAt \in 0..MaxTimes :
        LET o == calculate_jacobian(self, times, failAt)
        IN  /\ self' = o.self
            /\ last' = Call("calculate_jacobian", None, times, failAt, o)

CalculateObjectiveGMM ==
    \E r \in Records, failAt \in 0..1 :
        LET o == calculate_objectiveGMM(r, failAt)
        IN  /\ self' = self
            /\ last' = Call("calculate_objectiveGMM", r, 1, failAt, o)

CalculateJacobianGMM ==
    \E r \in Records, failAt \in 0..1 :
        LET o == calculate_jacobianGMM(r, failAt)
        IN  /\ self' = self
            /\ last' = Call("calculate_jacobianGMM", r, 1, failAt, o)

Next ==
    \/ Prepare
    \/ Output
    \/ CalculateObjective
    \/ CalculateJacobian
    \/ CalculateObjectiveGMM
    \/ CalculateJacobianGMM

Spec == Init /\ [][Next]_vars

(***************************************************************************)
(* Notions the properties are stated in.                                   *)
(***************************************************************************)
Attributes == {"inputs", "params", "objective", "gradient"}

\* the lifecycle state of an instance, read off its fields: an evaluation
\* replaces the one-element zero vector by a 0-dimensional result
Lifecycle(py) ==
    IF ~(Attributes \subseteq DOMAIN py) THEN "uninitialized"
    ELSE IF py.objective = torch_zeros1 /\ py.gradient = torch_empty0 THEN "prepared"
    ELSE "evaluated"

Rank(state) ==
    CASE state = "uninitialized" -> 0
      [] state = "prepared" -> 1
      [] state = "evaluated" -> 2

EvaluationCalls == {"calculate_objective", "calculate_jacobian"}

\* attribute a is the same, present or absent, in py and in qy
SameAttr(py, qy, a) ==
    /\ HasAttr(py, a) <=> HasAttr(qy, a)
    /\ HasAttr(py, a) => py[a] = qy[a]

ConvertibleRecord(r) ==
    \A f \in {"alpha", "means", "icf", "x", "gamma", "m"} : Convertible(r[f])

\* the tensors a record stands for, straight from its keys
DifferentiableOf(r) ==
    <<to_torch_tensor(r.alpha, TRUE), to_torch_tensor(r.means, TRUE),
      to_torch_tensor(r.icf, TRUE)>>

PlainOf(r) ==
    <<to_torch_tensor(r.x, FALSE), to_torch_tensor(r.gamma, FALSE),
      to_torch_tensor(r.m, FALSE)>>

\* number of elements of a tuple of tensors
NumElems(ts) == SumSeq([i \in 1..Len(ts) |-> Len(ts[i].data)])

\* the objective of (alphas, means, icf, x, gamma, m) and its partial
\* derivatives in alphas, then means, then icf
ObjectiveAt(a, mu, q, x, gamma, m) == gmm_objective(a, mu, q, x, gamma, m)

GradientAt(a, mu, q, x, gamma, m) ==
    gmm_partial(1, a, mu, q, x, gamma, m) \o gmm_partial(2, a, mu, q, x, gamma, m)
    \o gmm_partial(3, a, mu, q, x, gamma, m)

(***************************************************************************)
(* Properties.                                                             *)
(***************************************************************************)

\* C1: on an instance that was never prepared (no field exists), and more
\* generally on any instance still lacking a field, calculate_objective(times)
\* and calculate_jacobian(times) with times >= 1 raise the uninitialized-state
\* error (AttributeError) without invoking the objective, and leave the
\* instance exactly as it was: no objective or gradient field is created.
C1_UninitializedEvaluationFails ==
    (/\ last.op \in EvaluationCalls
     /\ last.times >= 1
     /\ Lifecycle(last.pre) = "uninitialized")
    => /\ last.raised = "AttributeError"
       /\ last.evals = 0
       /\ self = last.pre
       /\ ~HasAttr(self, "objective")
       /\ ~HasAttr(self, "gradient")

C1_Witness ==
    /\ last.op = "calculate_objective"
    /\ last.times >= 1
    /\ last.pre = PyTorchGMM
    /\ last.raised = "AttributeError"

\* C2 (as claimed): on a prepared or evaluated instance output() returns a
\* GMMOutput of the objective as a plain number and the gradient as a plain
\* flat array, and changes no field.
C2_OutputReturnsSnapshot ==
    (/\ last.op = "output"
     /\ Lifecycle(last.pre) \in {"prepared", "evaluated"})
    => /\ last.raised = "none"
       /\ self = last.pre
       /\ last.ret = GMMOutput(item(last.pre.objective), numpy(last.pre.gradient))

\* C3: an evaluation call with times >= 1 that returns leaves the result of
\* a single evaluation of the instance's inputs and params, whatever the
\* iteration count and whatever evaluation calls came before.
C3_IterationCountIrrelevant ==
    (/\ last.op \in EvaluationCalls
     /\ last.times >= 1
     /\ last.raised = "none")
    => /\ self.objective =
            ObjectiveAt(self.inputs[1], self.inputs[2], self.inputs[3],
                        self.params[1], self.params[2], self.params[3])
       /\ last.op = "calculate_jacobian" =>
            /\ self.gradient.shape = <<NumElems(self.inputs)>>
            /\ self.gradient.data =
                 GradientAt(self.inputs[1], self.inputs[2], self.inputs[3],
                            self.params[1], self.params[2], self.params[3])
       /\ self.inputs = last.pre.inputs
       /\ self.params = last.pre.params

C3_Witness ==
    /\ last.op = "calculate_jacobian"
    /\ last.times >= 2
    /\ last.raised = "none"
    /\ Lifecycle(last.pre) = "evaluated"
    /\ self.gradient.data # <<>>

\* C4: calculate_objective(times) changes no field but objective: inputs,
\* params and gradient are what they were, in every state and for every
\* times, whether it returns or raises.
C4_ObjectiveOnly ==
    last.op = "calculate_objective"
    => /\ SameAttr(self, last.pre, "inputs")
       /\ SameAttr(self, last.pre, "params")
       /\ SameAttr(self, last.pre, "gradient")
       /\ Lifecycle(last.pre) = "prepared" => self.gradient = torch_empty0

C4_Witness ==
    /\ last.op = "calculate_objective"
    /\ last.times >= 1
    /\ last.raised = "none"
    /\ Lifecycle(last.pre) = "evaluated"
    /\ last.pre.gradient # torch_empty0
    /\ self.gradient = last.pre.gradient
    /\ self.objective # torch_zeros1

\* C5: a prepare(input) that returns leaves exactly the four fields, built
\* from its argument alone: inputs are the differentiable tensors of alphas,
\* means, icf in that order, params the plain tensors of x, gamma, m in that
\* order, objective is torch.zeros(1) and gradient is torch.empty(0), from
\* every prior state of the instance.
C5_PrepareReinitializes ==
    (last.op = "prepare" /\ last.raised = "none")
    => /\ DOMAIN self = Attributes
       /\ self.inputs = DifferentiableOf(last.input)
       /\ self.params = PlainOf(last.input)
       /\ self.objective = torch_zeros1
       /\ self.gradient = torch_empty0
       /\ self = prepare(PyTorchGMM, prepare_input(last.input)).self

C5_Witness ==
    /\ last.op = "prepare"
    /\ last.raised = "none"
    /\ Lifecycle(last.pre) = "evaluated"
    /\ last.pre.gradient # torch_empty0
    /\ last.pre.inputs # self.inputs
    /\ Lifecycle(self) = "prepared"

\* C6 (as claimed): prepare is the only call that leaves uninitialized and
\* is called exactly once (only on an uninitialized instance), an evaluation
\* call is the only call that moves prepared to evaluated, output comes
\* after an evaluation, and no call moves an instance back to an earlier
\* lifecycle state.
C6_MonotoneLifecycle ==
    /\ (Lifecycle(last.pre) = "uninitialized" /\ Lifecycle(self) # "uninitialized")
       => last.op = "prepare"
    /\ (last.op = "prepare" /\ last.raised = "none")
       => Lifecycle(last.pre) = "uninitialized"
    /\ (Lifecycle(last.pre) = "prepared" /\ Lifecycle(self) = "evaluated")
       => last.op \in EvaluationCalls
    /\ (last.op = "output" /\ last.raised = "none")
       => Lifecycle(last.pre) = "evaluated"
    /\ Rank(Lifecycle(self)) >= Rank(Lifecycle(last.pre))

\* C6 (amended): prepare is the only call that leaves uninitialized, and it
\* leaves the instance prepared; an evaluation call with times >= 1 is the
\* only call that moves prepared to evaluated; no call takes an instance
\* back to uninitialized; the only move back is a prepare that returns,
\* which may be called in any state and takes an evaluated instance back to
\* prepared; output never changes the state.
C6_LifecycleWithRePrepare ==
    /\ (Lifecycle(last.pre) = "uninitialized" /\ Lifecycle(self) # "uninitialized")
       => (last.op = "prepare" /\ last.raised = "none"
           /\ Lifecycle(self) = "prepared")
    /\ (Lifecycle(last.pre) = "prepared" /\ Lifecycle(self) = "evaluated")
       => (last.op \in EvaluationCalls /\ last.times >= 1)
    /\ Lifecycle(self) = "uninitialized" => Lifecycle(last.pre) = "uninitialized"
    /\ Rank(Lifecycle(self)) < Rank(Lifecycle(last.pre))
       => (last.op = "prepare" /\ last.raised = "none"
           /\ Lifecycle(self) = "prepared")
    /\ (last.op = "prepare" /\ last.raised = "none") => Lifecycle(self) = "prepared"
    /\ last.op = "output" => self = last.pre

C6_Witness ==
    /\ last.op = "prepare"
    /\ last.raised = "none"
    /\ Lifecycle(last.pre) = "evaluated"
    /\ Lifecycle(self) = "prepared"
    /\ Rank(Lifecycle(self)) < Rank(Lifecycle(last.pre))

\* C7 (as claimed): after prepare(input) and calculate_jacobian(1) the stored
\* gradient, the gradient returned by output() and the list returned by
\* calculate_jacobianGMM are flat, of length the number of elements of
\* alphas plus means plus icf, ordered alphas, then means, then icf.
C7_GradientFlatInOrder ==
    /\ (/\ last.op = "calculate_jacobian"
        /\ last.times = 1
        /\ last.raised = "none")
       => /\ self.gradient.shape = <<NumElems(self.inputs)>>
          /\ self.gradient.data =
               GradientAt(self.inputs[1], self.inputs[2], self.inputs[3],
                          self.params[1], self.params[2], self.params[3])
    /\ (/\ last.op = "output"
        /\ Lifecycle(last.pre) = "evaluated"
        /\ last.pre.gradient # torch_empty0)
       => /\ last.raised = "none"
          /\ last.ret.gradient.shape = <<NumElems(last.pre.inputs)>>
          /\ last.ret.gradient.data = last.pre.gradient.data
    /\ (/\ last.op = "calculate_jacobianGMM"
        /\ last.raised = "none")
       => /\ Len(last.ret) = NumElems(DifferentiableOf(last.input))
          /\ last.ret =
               GradientAt(DifferentiableOf(last.input)[1],
                          DifferentiableOf(last.input)[2],
                          DifferentiableOf(last.input)[3],
                          PlainOf(last.input)[1], PlainOf(last.input)[2],
                          PlainOf(last.input)[3])

\* The parts of C7 that do not go through output(): the stored gradient and
\* the list of calculate_jacobianGMM are flat, complete and in order; for 2
\* alphas, 2x2 means and 2x2 icf the length is 10.
StoredGradientFlatInOrder ==
    /\ (/\ last.op = "calculate_jacobian"
        /\ last.times = 1
        /\ last.raised = "none")
       => /\ self.gradient.shape = <<NumElems(self.inputs)>>
          /\ self.gradient.data =
               GradientAt(self.inputs[1], self.inputs[2], self.inputs[3],
                          self.params[1], self.params[2], self.params[3])
    /\ (/\ last.op = "calculate_jacobianGMM"
        /\ last.raised = "none")
       => /\ Len(last.ret) = NumElems(DifferentiableOf(last.input))
          /\ (/\ Len(last.input.alpha.val) = 2
              /\ DifferentiableOf(last.input)[2].shape = <<2, 2>>
              /\ DifferentiableOf(last.input)[3].shape = <<2, 2>>)
             => Len(last.ret) = 10

\* C8: a failure of the tensor conversion in prepare reaches the caller as
\* raised and prepare returns only when every conversion succeeded; a
\* failure of the external evaluation in iteration k of an evaluation call
\* on an instance with inputs and params reaches the caller as raised, after
\* exactly k invocations (no retry, no later iteration), leaving objective
\* and gradient as iteration k-1 left them (as before the call when k = 1);
\* calculate_jacobian updates the two fields together or not at all.
C8_FailuresPropagate ==
    /\ last.op = "prepare"
       => /\ last.raised = (IF ConvertibleRecord(last.input) THEN "none"
                            ELSE "ValueError")
          /\ last.raised # "none"
             => /\ SameAttr(self, last.pre, "params")
                /\ SameAttr(self, last.pre, "objective")
                /\ SameAttr(self, last.pre, "gradient")
    /\ (/\ last.op \in EvaluationCalls
        /\ last.failAt >= 1
        /\ last.failAt <= last.times
        /\ HasAttr(last.pre, "inputs")
        /\ HasAttr(last.pre, "params"))
       => /\ last.raised = "ExternalError"
          /\ last.evals = last.failAt
          /\ SameAttr(self, last.pre, "inputs")
          /\ SameAttr(self, last.pre, "params")
          /\ last.failAt = 1 => self = last.pre
          /\ last.failAt > 1 =>
               /\ self.objective =
                    ObjectiveAt(self.inputs[1], self.inputs[2], self.inputs[3],
                                self.params[1], self.params[2], self.params[3])
               /\ IF last.op = "calculate_jacobian"
                  THEN self.gradient.data =
                         GradientAt(self.inputs[1], self.inputs[2], self.inputs[3],
                                    self.params[1], self.params[2], self.params[3])
                  ELSE SameAttr(self, last.pre, "gradient")
    /\ last.op = "calculate_jacobian"
       => \/ /\ SameAttr(self, last.pre, "objective")
             /\ SameAttr(self, last.pre, "gradient")
          \/ /\ last.evals >= 1
             /\ <<self.objective, self.gradient>>
                  = torch_jacobian(last.pre.inputs, last.pre.params)

C8_Witness ==
    /\ last.op = "calculate_jacobian"
    /\ last.failAt = 2
    /\ last.times >= 2
    /\ Lifecycle(last.pre) = "prepared"
    /\ last.raised = "ExternalError"
    /\ last.evals = 2
    /\ Lifecycle(self) = "evaluated"

\* C9: calculate_objectiveGMM and calculate_jacobianGMM leave the harness's
\* instance untouched, and what they return is decided by their own record
\* alone, whatever calls came before: the converted objective (resp. the
\* flat gradient) of the tensors built from the keys alpha, means, icf, x,
\* gamma, m, after one prepare and exactly one evaluation on a fresh adapter.
C9_FreeFunctionsIndependent ==
    /\ last.op \in {"calculate_objectiveGMM", "calculate_jacobianGMM"}
       => /\ self = last.pre
          /\ ~ConvertibleRecord(last.input)
             => (last.raised = "ValueError" /\ last.evals = 0)
          /\ (ConvertibleRecord(last.input) /\ last.failAt = 1)
             => (last.raised = "ExternalError" /\ last.evals = 1)
          /\ (ConvertibleRecord(last.input) /\ last.failAt = 0)
             => (last.raised = "none" /\ last.evals = 1)
    /\ (last.op = "calculate_objectiveGMM" /\ last.raised = "none")
       => last.ret =
            item(ObjectiveAt(DifferentiableOf(last.input)[1],
                             DifferentiableOf(last.input)[2],
                             DifferentiableOf(last.input)[3],
                             PlainOf(last.input)[1], PlainOf(last.input)[2],
                             PlainOf(last.input)[3]))
    /\ (last.op = "calculate_jacobianGMM" /\ last.raised = "none")
       => last.ret =
            GradientAt(DifferentiableOf(last.input)[1],
                       DifferentiableOf(last.input)[2],
                       DifferentiableOf(last.input)[3],
                       PlainOf(last.input)[1], PlainOf(last.input)[2],
                       PlainOf(last.input)[3])

C9_Witness ==
    /\ last.op = "calculate_objectiveGMM"
    /\ last.raised = "none"
    /\ Lifecycle(self) = "evaluated"
    /\ self.inputs # DifferentiableOf(last.input)
    /\ self.objective.data # <<last.ret>>

\* C10: with times <= 0 calculate_objective and calculate_jacobian do
\* nothing in every lifecycle state: the objective is not invoked, no field
\* changes and the call returns normally, also on an instance that was
\* never prepared; a prepared instance keeps objective zero and gradient
\* empty.
C10_ZeroTimesNoOp ==
    (last.op \in EvaluationCalls /\ last.times <= 0)
    => /\ last.raised = "none"
       /\ last.evals = 0
       /\ self = last.pre
       /\ Lifecycle(last.pre) = "prepared"
          => (self.objective = torch_zeros1 /\ self.gradient = torch_empty0)

C10_Witness ==
    /\ last.op = "calculate_jacobian"
    /\ last.times = 0
    /\ last.raised = "none"
    /\ last.pre = PyTorchGMM
    /\ self = PyTorchGMM

====
